---- MODULE Spec2Model ----
(***************************************************************************)
(* Model of the Extended JSON decoder of bson/src/encoder/extended.rs:     *)
(* the dispatcher `inspect` and the wrapper decoders it routes to (oid,    *)
(* date, timestamp, regex, binary), together with the library calls they   *)
(* make (js_sys::Reflect, chrono, hex, base64) and the numeric primitive   *)
(* decoders of the sibling module `number`.                                *)
(*                                                                         *)
(* One run of the state machine is one call of `inspect` on one input      *)
(* value: Init draws the input, the actions follow the call from the       *)
(* dispatcher into the routed decoder and back.                            *)
(***************************************************************************)
EXTENDS Integers, Sequences, FiniteSets, TLC

(***************************************************************************)
(* Wide integers.  TLC's integers are 32 bits wide; the program computes   *)
(* on i64, u32 and f64.  A wide integer is a sign and a magnitude written  *)
(* as its groups of three decimal digits, most significant first           *)
(* (4294967295 is <<4, 294, 967, 295>>); zero is the empty magnitude.      *)
(***************************************************************************)
RECURSIVE StripZeros(_)
StripZeros(m) ==
    IF m = <<>> THEN <<>>
    ELSE IF Head(m) = 0 THEN StripZeros(Tail(m)) ELSE m

MkBig(neg, m) ==
    LET s == StripZeros(m) IN [neg |-> neg /\ s # <<>>, mag |-> s]

RECURSIVE MagOfNat(_)
MagOfNat(n) ==
    IF n = 0 THEN <<>> ELSE Append(MagOfNat(n \div 1000), n % 1000)

BigOf(n) == MkBig(n < 0, MagOfNat(IF n < 0 THEN -n ELSE n))

Front(s) == SubSeq(s, 1, Len(s) - 1)
Last(s) == s[Len(s)]

RECURSIVE CmpMag(_, _)
CmpMag(a, b) ==
    IF Len(a) # Len(b) THEN (IF Len(a) < Len(b) THEN -1 ELSE 1)
    ELSE IF a = <<>> THEN 0
    ELSE IF Head(a) # Head(b) THEN (IF Head(a) < Head(b) THEN -1 ELSE 1)
    ELSE CmpMag(Tail(a), Tail(b))

\* -1, 0 or 1 as x is below, equal to or above y.
Cmp(x, y) ==
    IF x.neg # y.neg THEN (IF x.neg THEN -1 ELSE 1)
    ELSE IF x.neg THEN CmpMag(y.mag, x.mag) ELSE CmpMag(x.mag, y.mag)

Less(x, y) == Cmp(x, y) < 0
Leq(x, y) == Cmp(x, y) <= 0

RECURSIVE AddMag(_, _, _)
AddMag(a, b, carry) ==
    IF a = <<>> /\ b = <<>> THEN MagOfNat(carry)
    ELSE LET la == IF a = <<>> THEN 0 ELSE Last(a)
             lb == IF b = <<>> THEN 0 ELSE Last(b)
             s  == la + lb + carry
         IN Append(AddMag(IF a = <<>> THEN a ELSE Front(a),
                          IF b = <<>> THEN b ELSE Front(b),
                          s \div 1000),
                   s % 1000)

\* a - b on magnitudes, for a >= b.
RECURSIVE SubMag(_, _, _)
SubMag(a, b, borrow) ==
    IF a = <<>> THEN <<>>
    ELSE LET lb == IF b = <<>> THEN 0 ELSE Last(b)
             d  == Last(a) - lb - borrow
         IN Append(SubMag(Front(a),
                          IF b = <<>> THEN b ELSE Front(b),
                          IF d < 0 THEN 1 ELSE 0),
                   IF d < 0 THEN d + 1000 ELSE d)

Negate(x) == MkBig(~x.neg, x.mag)

Add(x, y) ==
    IF x.neg = y.neg THEN MkBig(x.neg, AddMag(x.mag, y.mag, 0))
    ELSE IF CmpMag(x.mag, y.mag) >= 0 THEN MkBig(x.neg, SubMag(x.mag, y.mag, 0))
    ELSE MkBig(y.neg, SubMag(y.mag, x.mag, 0))

Sub(x, y) == Add(x, Negate(y))

\* a * k + carry on magnitudes, for 0 <= k <= 1000000.
RECURSIVE MulMag(_, _, _)
MulMag(a, k, carry) ==
    IF a = <<>> THEN MagOfNat(carry)
    ELSE LET p == Last(a) * k + carry
         IN Append(MulMag(Front(a), k, p \div 1000), p % 1000)

Mul(x, k) == MkBig(x.neg, MulMag(x.mag, k, 0))

\* Long division of a magnitude by d, 0 < d <= 1000000: quotient and remainder.
RECURSIVE DivMag(_, _, _, _)
DivMag(a, d, rem, quot) ==
    IF a = <<>> THEN [q |-> quot, r |-> rem]
    ELSE LET cur == rem * 1000 + Head(a)
         IN DivMag(Tail(a), d, cur % d, Append(quot, cur \div d))

\* Rust's / and % on integers: the quotient truncates toward zero and the
\* remainder takes the sign of the dividend.
Div(x, d) == MkBig(x.neg, DivMag(x.mag, d, 0, <<>>).q)
Rem(x, d) == LET r == DivMag(x.mag, d, 0, <<>>).r IN IF x.neg THEN -r ELSE r

\* The quotient rounded toward minus infinity.
FloorDiv(x, d) ==
    IF Rem(x, d) < 0 THEN Sub(Div(x, d), BigOf(1)) ELSE Div(x, d)

\* The value of a wide integer that fits TLC's integers.
RECURSIVE NatOfMag(_)
NatOfMag(m) == IF m = <<>> THEN 0 ELSE NatOfMag(Front(m)) * 1000 + Last(m)
IntOf(x) == IF x.neg THEN -NatOfMag(x.mag) ELSE NatOfMag(x.mag)

(***************************************************************************)
(* Characters and strings.  A string value is the sequence of its          *)
(* characters; a character is written as a one-character TLA+ string, and  *)
(* "U+00A0" stands for the single character of that code point (no-break   *)
(* space), likewise "U+00E9", "U+0022", "U+005C", "U+0060".  Strings hold   *)
(* Unicode scalar values only (no unpaired surrogates), so                 *)
(* JsValue::as_string copies them unchanged.                               *)
(***************************************************************************)
\* The printable ASCII characters in code-point order, from 32 to 126.
Ascii ==
    << " ", "!", "U+0022", "#", "$", "%", "&", "'", "(", ")", "*", "+",
       ",", "-", ".", "/", "0", "1", "2", "3", "4", "5", "6", "7",
       "8", "9", ":", ";", "<", "=", ">", "?", "@", "A", "B", "C",
       "D", "E", "F", "G", "H", "I", "J", "K", "L", "M", "N", "O",
       "P", "Q", "R", "S", "T", "U", "V", "W", "X", "Y", "Z", "[",
       "U+005C", "]", "^", "_", "U+0060", "a", "b", "c", "d", "e", "f", "g",
       "h", "i", "j", "k", "l", "m", "n", "o", "p", "q", "r", "s",
       "t", "u", "v", "w", "x", "y", "z", "{", "|", "}", "~" >>

IndexOf(seq, c) == CHOOSE i \in 1..Len(seq) : seq[i] = c
Occurs(seq, c) == \E i \in 1..Len(seq) : seq[i] = c

\* char's ordering (Ord for char compares code points).
CodePoint(c) ==
    IF c = "\t" THEN 9
    ELSE IF c = "U+00A0" THEN 160
    ELSE IF c = "U+00E9" THEN 233
    ELSE 31 + IndexOf(Ascii, c)

\* char::is_whitespace: the Unicode White_Space property.
IsWhitespace(c) == c \in {" ", "\t", "U+00A0"}

Result_Ok(v) == [tag |-> "Ok", val |-> v]
Result_Err(e) == [tag |-> "Err", err |-> e]
IsOk(r) == r.tag = "Ok"
IsErr(r) == r.tag = "Err"
Some(v) == [tag |-> "Some", val |-> v]
None == [tag |-> "None"]

(***************************************************************************)
(* JavaScript values (wasm_bindgen::JsValue) and js_sys::Reflect.          *)
(* An object is the sequence of its own properties in the order            *)
(* Reflect.ownKeys lists them; a property key is a string (held whole,     *)
(* the code only compares keys) or a symbol; every property is a data      *)
(* property (no getter, no proxy), so reading one never throws.  A number  *)
(* is an f64: NaN, an infinity, or a finite value of sign neg, integer     *)
(* part int and, when frac, a fraction strictly between 0 and 1.           *)
(***************************************************************************)
JsUndefined == [kind |-> "undefined"]
JsNull == [kind |-> "null"]
JsString(s) == [kind |-> "string", str |-> s]
JsSymbol == [kind |-> "symbol"]
JsObject(props) == [kind |-> "object", props |-> props]
Prop(k, v) == [key |-> JsString(k), val |-> v]
F64(neg, mag, frac) ==
    [kind |-> "number", cls |-> "finite", neg |-> neg, int |-> StripZeros(mag), frac |-> frac]
F64NaN == [kind |-> "number", cls |-> "nan"]
F64Inf(neg) == [kind |-> "number", cls |-> "inf", neg |-> neg]
JsNumber(n) == F64(n < 0, BigOf(n).mag, FALSE)

\* JsValue::as_string and JsValue::as_f64: Some only for a string, a number.
as_string(v) == IF v.kind = "string" THEN Some(v.str) ELSE None
as_f64(v) == IF v.kind = "number" THEN Some(v) ELSE None

\* Reflect.ownKeys(target): a TypeError when target is not an object.
Reflect_own_keys(target) ==
    IF target.kind # "object" THEN Result_Err("TypeError: Reflect.ownKeys called on non-object")
    ELSE Result_Ok([i \in 1..Len(target.props) |-> target.props[i].key])

\* Reflect.get(target, key): a TypeError when target is not an object,
\* undefined when the object has no such property.
Reflect_get(target, key) ==
    IF target.kind # "object" THEN Result_Err("TypeError: Reflect.get called on non-object")
    ELSE IF \E i \in 1..Len(target.props) : target.props[i].key = key
         THEN Result_Ok(target.props[CHOOSE i \in 1..Len(target.props) :
                                         target.props[i].key = key].val)
         ELSE Result_Ok(JsUndefined)

(***************************************************************************)
(* hex::decode, bson's ObjectId::with_string and base64::decode.           *)
(***************************************************************************)
HexLower == << "0", "1", "2", "3", "4", "5", "6", "7", "8", "9", "a", "b", "c", "d", "e", "f" >>
HexUpper == << "0", "1", "2", "3", "4", "5", "6", "7", "8", "9", "A", "B", "C", "D", "E", "F" >>
IsHexDigit(c) == Occurs(HexLower, c) \/ Occurs(HexUpper, c)
HexVal(c) == IF Occurs(HexLower, c) THEN IndexOf(HexLower, c) - 1 ELSE IndexOf(HexUpper, c) - 1

\* hex::decode: an odd number of digits is an error, then each pair of
\* digits, in either letter case, is one byte.
hex_decode(s) ==
    IF Len(s) % 2 # 0 THEN Result_Err("Odd number of digits")
    ELSE IF \E i \in 1..Len(s) : ~IsHexDigit(s[i]) THEN Result_Err("Invalid character")
    ELSE Result_Ok([i \in 1..(Len(s) \div 2) |-> HexVal(s[2 * i - 1]) * 16 + HexVal(s[2 * i])])

\* ObjectId::with_string: the hex string must decode to exactly 12 bytes.
ObjectId_with_string(s) ==
    LET bytes == hex_decode(s)
    IN IF IsErr(bytes) THEN bytes
       ELSE IF Len(bytes.val) # 12 THEN Result_Err("Provided string must be a 12-byte hexadecimal string")
       ELSE Result_Ok(bytes.val)

Base64Alphabet ==
    << "A", "B", "C", "D", "E", "F", "G", "H", "I", "J", "K", "L", "M",
       "N", "O", "P", "Q", "R", "S", "T", "U", "V", "W", "X", "Y", "Z",
       "a", "b", "c", "d", "e", "f", "g", "h", "i", "j", "k", "l", "m",
       "n", "o", "p", "q", "r", "s", "t", "u", "v", "w", "x", "y", "z",
       "0", "1", "2", "3", "4", "5", "6", "7", "8", "9", "+", "/" >>

B64Val(c) == IndexOf(Base64Alphabet, c) - 1

\* The number of trailing "=" of s.
RECURSIVE PadLen(_)
PadLen(s) == IF s # <<>> /\ Last(s) = "=" THEN 1 + PadLen(Front(s)) ELSE 0

\* The bytes of the 6-bit symbols syms: each full group of four gives three
\* bytes, a final group of three gives two and a final group of two gives one.
RECURSIVE B64Bytes(_)
B64Bytes(syms) ==
    IF Len(syms) < 2 THEN <<>>
    ELSE LET b1 == syms[1] * 4 + syms[2] \div 16
         IN IF Len(syms) = 2 THEN <<b1>>
            ELSE LET b2 == (syms[2] % 16) * 16 + syms[3] \div 4
                 IN IF Len(syms) = 3 THEN <<b1, b2>>
                    ELSE <<b1, b2, (syms[3] % 4) * 64 + syms[4]>>
                         \o B64Bytes(SubSeq(syms, 5, Len(syms)))

\* base64::decode with the standard alphabet and "=" padding: the length is a
\* multiple of four, at most two "=" and only at the end, every other
\* character of the alphabet, and no stray bits in the last symbol.
base64_decode(s) ==
    LET pad  == PadLen(s)
        body == SubSeq(s, 1, Len(s) - pad)
        syms == [i \in 1..Len(body) |-> B64Val(body[i])]
    IN IF \E i \in 1..Len(body) : ~Occurs(Base64Alphabet, body[i])
          THEN Result_Err("Invalid byte")
       ELSE IF Len(s) % 4 # 0 \/ pad > 2 THEN Result_Err("Encoded text cannot have a 6-bit remainder.")
       ELSE IF (pad = 1 /\ Last(syms) % 4 # 0) \/ (pad = 2 /\ Last(syms) % 16 # 0)
          THEN Result_Err("Invalid last symbol")
       ELSE Result_Ok(B64Bytes(syms))

(***************************************************************************)
(* The numeric primitive decoders of the sibling module `number`           *)
(* (super::number): double, int and long.  A string is read as a decimal   *)
(* integer, an optional "-" and at least one digit.                        *)
(***************************************************************************)
I64Max == MkBig(FALSE, <<9, 223, 372, 36, 854, 775, 807>>)
I64Min == MkBig(TRUE, <<9, 223, 372, 36, 854, 775, 808>>)
I32Max == MkBig(FALSE, <<2, 147, 483, 647>>)
I32Min == MkBig(TRUE, <<2, 147, 483, 648>>)
U32Max == MkBig(FALSE, <<4, 294, 967, 295>>)

IsDigit(c) == Occurs(SubSeq(HexLower, 1, 10), c)

RECURSIVE ParseDigits(_, _)
ParseDigits(s, acc) ==
    IF s = <<>> THEN acc ELSE ParseDigits(Tail(s), MulMag(acc, 10, HexVal(Head(s))))

parse_int(s) ==
    LET neg    == s # <<>> /\ Head(s) = "-"
        digits == IF neg THEN Tail(s) ELSE s
    IN IF digits = <<>> \/ \E i \in 1..Len(digits) : ~IsDigit(digits[i])
       THEN Result_Err(<<"invalid digit found in string">>)
       ELSE Result_Ok(MkBig(neg, ParseDigits(digits, <<>>)))

\* A string or number as an integer within [lo, hi].
integer_in(v, lo, hi, what) ==
    LET parsed == IF v.kind = "string" THEN parse_int(v.str)
                  ELSE IF v.kind = "number" /\ v.cls = "finite" /\ ~v.frac
                       THEN Result_Ok(MkBig(v.neg, v.int))
                  ELSE Result_Err(<<"not an integer">>)
    IN IF IsErr(parsed) \/ Less(parsed.val, lo) \/ Less(hi, parsed.val)
       THEN Result_Err(<<what>>)
       ELSE parsed

number_long(v) == integer_in(v, I64Min, I64Max, "invalid $numberLong")
number_int(v) == integer_in(v, I32Min, I32Max, "invalid $numberInt")
number_double(v) ==
    IF v.kind = "number" THEN Result_Ok(v)
    ELSE IF v.kind = "string" /\ IsOk(parse_int(v.str))
         THEN LET n == parse_int(v.str).val IN Result_Ok(F64(n.neg, n.mag, FALSE))
    ELSE Result_Err(<<"invalid $numberDouble">>)

(***************************************************************************)
(* BSON values (bson::Bson).                                               *)
(***************************************************************************)
Bson_ObjectId(bytes) == [bson |-> "ObjectId", bytes |-> bytes]
Bson_DateTime(secs, nsecs) == [bson |-> "DateTime", secs |-> secs, nsecs |-> nsecs]
Bson_Double(x) == [bson |-> "Double", value |-> x]
Bson_Int32(n) == [bson |-> "Int32", value |-> n]
Bson_Int64(n) == [bson |-> "Int64", value |-> n]
Bson_MinKey == [bson |-> "MinKey"]
Bson_MaxKey == [bson |-> "MaxKey"]
Bson_RegularExpression(pattern, options) ==
    [bson |-> "RegularExpression", pattern |-> pattern, options |-> options]
Bson_Timestamp(time, increment) ==
    [bson |-> "Timestamp", time |-> time, increment |-> increment]
Bson_Binary(bytes, subtype) == [bson |-> "Binary", bytes |-> bytes, subtype |-> subtype]

\* From<u8> for bson::spec::BinarySubtype and its inverse.
BinarySubtype_from(b) ==
    IF b = 0 THEN <<"Generic">>
    ELSE IF b = 1 THEN <<"Function">>
    ELSE IF b = 2 THEN <<"BinaryOld">>
    ELSE IF b = 3 THEN <<"UuidOld">>
    ELSE IF b = 4 THEN <<"Uuid">>
    ELSE IF b = 5 THEN <<"Md5">>
    ELSE <<"UserDefined", b>>
BinarySubtype_byte(t) ==
    IF Len(t) = 2 THEN t[2]
    ELSE IndexOf(<<"Generic", "Function", "BinaryOld", "UuidOld", "Uuid", "Md5">>, t[1]) - 1

(***************************************************************************)
(* The wrapper decoders.  Each returns Result_Ok(bson) or Result_Err(msg). *)
(***************************************************************************)
\* fn oid
oid(target) ==
    LET s == as_string(target)
    IN IF s = None THEN Result_Err(<<"failed to extract object id value">>)
       ELSE LET id == ObjectId_with_string(s.val)
            IN IF IsErr(id) THEN Result_Err(<<"error in ObjectID value: ", id.err>>)
               ELSE Result_Ok(Bson_ObjectId(id.val))

\* fn date, to the call of chrono: the milliseconds read, or the failure.
date_ms(target) ==
    LET got == Reflect_get(target, JsString("$numberLong"))
    IN IF IsErr(got) THEN Result_Err(<<got.err>>) ELSE number_long(got.val)

\* An i64 cast to u32 (`as u32`): the value modulo 2^32.
i64_as_u32(x) ==
    Sub(x, Mul(Mul(FloorDiv(FloorDiv(x, 65536), 65536), 65536), 65536))

\* The remainder scaled to microseconds.
date_nsecs_micros(ms) == i64_as_u32(Mul(BigOf(Rem(ms, 1000)), 1000))

date_secs(ms) == Div(ms, 1000)
date_nsecs(ms) == i64_as_u32(Mul(BigOf(Rem(ms, 1000)), 1000000))

\* chrono's range: NaiveDate holds the days of the years -262144 to 262143,
\* counted here from 1970-01-01, and NaiveTime takes nanoseconds below
\* 2_000_000_000 (a leap second from 1_000_000_000).
ChronoMinDays == BigOf(-96465659)
ChronoMaxDays == BigOf(95026601)
ChronoNanoLimit == MkBig(FALSE, <<2, 0, 0, 0>>)

\* chrono::Utc.timestamp(secs, nsecs) is timestamp_opt(secs, nsecs).unwrap():
\* it panics when the seconds are out of range or the nanoseconds invalid.
Utc_timestamp_opt(secs, nsecs) ==
    LET days == FloorDiv(secs, 86400)
    IN IF Leq(ChronoMinDays, days) /\ Leq(days, ChronoMaxDays) /\ Less(nsecs, ChronoNanoLimit)
       THEN Some(Bson_DateTime(secs, nsecs))
       ELSE None

\* t taken as seconds already.
f64_div_skipped(x) == x

\* f64 division by 1e3, and an f64 cast to u32 (`as u32`): the value
\* truncated toward zero and saturated to the range of u32, NaN giving 0.
\* The quotient is kept exact: its rounding to f64 moves no quotient below
\* 2^32 across an integer, so the cast sees the same integer part.
f64_div_1e3(x) ==
    IF x.cls # "finite" THEN x
    ELSE LET d == DivMag(x.int, 1000, 0, <<>>)
         IN F64(x.neg, d.q, x.frac \/ d.r # 0)

f64_as_u32(x) ==
    IF x.cls = "nan" THEN BigOf(0)
    ELSE IF x.neg THEN BigOf(0)
    ELSE IF x.cls = "inf" THEN U32Max
    ELSE IF Less(U32Max, MkBig(FALSE, x.int)) THEN U32Max
    ELSE MkBig(FALSE, x.int)

\* fn timestamp
timestamp(target) ==
    LET t == Reflect_get(target, JsString("t"))
        i == Reflect_get(target, JsString("i"))
    IN IF IsErr(t) THEN Result_Err(<<t.err>>)
       ELSE IF IsErr(i) THEN Result_Err(<<i.err>>)
       ELSE IF as_f64(t.val) = None THEN Result_Err(<<"invalid t in $timestamp">>)
       ELSE IF as_f64(i.val) = None THEN Result_Err(<<"invalid i in $timestamp">>)
       ELSE Result_Ok(Bson_Timestamp(f64_as_u32(f64_div_1e3(as_f64(t.val).val)),
                                     f64_as_u32(as_f64(i.val).val)))

\* chars.sort_by(|a, b| a.cmp(b)): a stable sort by code point.
RECURSIVE Insert(_, _)
Insert(sorted, c) ==
    IF sorted # <<>> /\ CodePoint(Last(sorted)) > CodePoint(c)
    THEN Append(Insert(Front(sorted), c), Last(sorted))
    ELSE Append(sorted, c)

\* The options left in the order given.
sort_chars_skipped(s) == s

RECURSIVE sort_chars(_)
sort_chars(s) == IF s = <<>> THEN <<>> ELSE Insert(sort_chars(Front(s)), Last(s))

\* str::trim: the string without its leading and trailing whitespace.
RECURSIVE trim_start(_)
trim_start(s) == IF s # <<>> /\ IsWhitespace(Head(s)) THEN trim_start(Tail(s)) ELSE s
RECURSIVE trim_end(_)
trim_end(s) == IF s # <<>> /\ IsWhitespace(Last(s)) THEN trim_end(Front(s)) ELSE s
trim(s) == trim_end(trim_start(s))

\* fn regex
regex(target) ==
    LET pattern == Reflect_get(target, JsString("pattern"))
        options == Reflect_get(target, JsString("options"))
    IN IF IsErr(pattern) THEN Result_Err(<<pattern.err>>)
       ELSE IF IsErr(options) THEN Result_Err(<<options.err>>)
       ELSE IF as_string(pattern.val) = None
            THEN Result_Err(<<"invalid pattern in $regularExpression">>)
       ELSE IF as_string(options.val) = None
            THEN Result_Err(<<"invalid options in $regularExpression">>)
       ELSE Result_Ok(Bson_RegularExpression(as_string(pattern.val).val,
                                             trim(sort_chars(as_string(options.val).val))))

\* A subtype of several bytes cut to its first.
binary_build_truncating(bytes, subtype) ==
    IF Len(subtype) >= 1
    THEN Result_Ok(Bson_Binary(bytes, BinarySubtype_from(subtype[1])))
    ELSE Result_Err(<<"invalid subType in $binary">>)

\* fn binary, from `if subtype.len() == 1`: the subtype is one byte, or the
\* decoder fails.
binary_build(bytes, subtype) ==
    IF Len(subtype) = 1
    THEN Result_Ok(Bson_Binary(bytes, BinarySubtype_from(subtype[1])))
    ELSE Result_Err(<<"invalid subType in $binary">>)

\* fn binary, to the hex-decoded subtype.
binary(target) ==
    LET bytes   == Reflect_get(target, JsString("base64"))
        subtype == Reflect_get(target, JsString("subType"))
    IN IF IsErr(bytes) THEN Result_Err(<<bytes.err>>)
       ELSE IF IsErr(subtype) THEN Result_Err(<<subtype.err>>)
       ELSE IF as_string(bytes.val) = None THEN Result_Err(<<"invalid base64 in $binary">>)
       ELSE IF as_string(subtype.val) = None THEN Result_Err(<<"invalid subType in $binary">>)
       ELSE LET decoded == base64_decode(as_string(bytes.val).val)
                hex     == hex_decode(as_string(subtype.val).val)
            IN IF IsErr(decoded)
               THEN Result_Err(<<"invalid base64 in $binary: ", decoded.err>>)
               ELSE IF IsErr(hex)
               THEN Result_Err(<<"invalid subType in $binary: ", hex.err>>)
               ELSE binary_build(decoded.val, hex.val)

(***************************************************************************)
(* The dispatcher.                                                         *)
(***************************************************************************)
ReservedKeys ==
    { "$oid", "$date", "$numberDouble", "$numberInt", "$numberLong",
      "$minKey", "$maxKey", "$regularExpression", "$timestamp", "$binary" }

\* The last key in place of the first.
last_key(keys) == IF keys = <<>> THEN None ELSE Some(keys[Len(keys)])

\* keys.get(0)
first_key(keys) == IF keys = <<>> THEN None ELSE Some(keys[1])

\* Bson::Double(number::double(&val)?) and its two siblings.
numberDouble(v) ==
    LET r == number_double(v) IN IF IsErr(r) THEN r ELSE Result_Ok(Bson_Double(r.val))
numberInt(v) ==
    LET r == number_int(v) IN IF IsErr(r) THEN r ELSE Result_Ok(Bson_Int32(r.val))
numberLong(v) ==
    LET r == number_long(v) IN IF IsErr(r) THEN r ELSE Result_Ok(Bson_Int64(r.val))

\* A decoder's failure taken as "no match".
propagate_swallowing(r) == IF IsErr(r) THEN Result_Ok(None) ELSE Result_Ok(Some(r.val))

\* Ok(match .. { key => Some(decoder(&val)?) }): the decoder's value wrapped,
\* its failure returned as it is.
propagate(r) == IF IsErr(r) THEN Result_Err(r.err) ELSE Result_Ok(Some(r.val))

\* The arm of an unknown key as a failure.
other_key_fails(k) == Result_Err(<<"unknown key">>)

\* The arm `_ => None`.
other_key(k) == Result_Ok(None)

(***************************************************************************)
(* The inputs of the model.                                                *)
(***************************************************************************)
\* Milliseconds -MaxMs..MaxMs are decoded as $date.
MaxMs == 1001
\* Numbers -MaxT..MaxT are decoded as the t of a $timestamp.
MaxT == 1001
\* Regex options of every length up to MaxOptLen.
MaxOptLen == 3
\* Binary subtypes of every length up to MaxSubTypeLen.
MaxSubTypeLen == 4
\* A first property is followed by up to MaxExtraKeys further properties.
MaxExtraKeys == 2

SeqsUpTo(S, n) == UNION { [1..k -> S] : k \in 0..n }

RECURSIVE DigitsOfNat(_)
DigitsOfNat(n) ==
    IF n < 10 THEN <<HexLower[n + 1]>>
    ELSE Append(DigitsOfNat(n \div 10), HexLower[(n % 10) + 1])
Decimal(n) == IF n < 0 THEN <<"-">> \o DigitsOfNat(-n) ELSE DigitsOfNat(n)

\* Strings given as $numberLong: the decimal form of every integer of
\* -MaxMs..MaxMs, the ends of chrono's range and of i64, and malformed ones.
LongStrings ==
    { Decimal(n) : n \in -MaxMs..MaxMs }
    \cup { <<"1", "5", "0", "0">>, <<"-", "1", "5", "0", "0">>,
           <<"8", "2", "1", "0", "2", "9", "8", "4", "1", "2", "7", "9", "9", "9", "9", "9">>,
           <<"8", "2", "1", "0", "2", "9", "8", "4", "1", "2", "8", "0", "0", "0", "0", "0">>,
           <<"-", "8", "3", "3", "4", "6", "3", "2", "9", "3", "7", "6", "0", "0", "0", "0", "0">>,
           <<"-", "8", "3", "3", "4", "6", "3", "2", "9", "3", "7", "6", "0", "1", "0", "0", "0">>,
           <<"9", "2", "2", "3", "3", "7", "2", "0", "3", "6", "8", "5", "4", "7", "7", "5", "8", "0", "7">>,
           <<"9", "2", "2", "3", "3", "7", "2", "0", "3", "6", "8", "5", "4", "7", "7", "5", "8", "0", "8">>,
           <<"-", "9", "2", "2", "3", "3", "7", "2", "0", "3", "6", "8", "5", "4", "7", "7", "5", "8", "0", "8">>,
           <<"-", "9", "2", "2", "3", "3", "7", "2", "0", "3", "6", "8", "5", "4", "7", "7", "5", "8", "0", "9">>,
           <<>>, <<"-">>, <<"1", "a">>, <<"1", ".", "5">> }

\* Values that are no well-formed payload of the wrapper they stand under.
OddValues ==
    { JsUndefined, JsNull, JsString(<<>>), JsString(<<"x">>), JsNumber(7), F64NaN,
      JsObject(<<>>), JsObject(<<Prop("$oid", JsNumber(1))>>) }

DateValues ==
    { JsObject(<<Prop("$numberLong", JsString(s))>>) : s \in LongStrings }
    \cup { JsObject(<<Prop("$numberLong", v)>>) :
             v \in { JsNumber(-500), JsNumber(1500), F64(FALSE, <<1>>, TRUE), F64NaN, JsNull } }
    \cup OddValues

\* The numbers given as t and i of a $timestamp.
BigNumbers ==
    { F64(FALSE, <<4, 294, 967, 295>>, FALSE), F64(FALSE, <<4, 294, 967, 295>>, TRUE),
      F64(FALSE, <<4, 294, 967, 296>>, FALSE),
      F64(FALSE, <<4, 294, 967, 295, 0>>, FALSE), F64(FALSE, <<4, 294, 967, 295, 999>>, TRUE),
      F64(FALSE, <<4, 294, 967, 296, 0>>, FALSE),
      F64(FALSE, <<9, 7, 199, 254, 740, 992>>, FALSE),
      F64(TRUE, <<9, 7, 199, 254, 740, 992>>, FALSE),
      F64Inf(FALSE), F64Inf(TRUE), F64NaN }
SmallNumbers ==
    { JsNumber(0), JsNumber(2), JsNumber(-1), JsNumber(1500), JsNumber(-1500),
      F64(FALSE, <<2>>, TRUE), F64(TRUE, <<>>, TRUE), F64(FALSE, <<999>>, TRUE) }
TimestampValues ==
    { JsObject(<<Prop("t", JsNumber(t)), Prop("i", JsNumber(2))>>) : t \in -MaxT..MaxT }
    \cup { JsObject(<<Prop("t", t), Prop("i", i)>>) :
             t \in BigNumbers \cup SmallNumbers \cup {JsString(<<"1">>)},
             i \in BigNumbers \cup SmallNumbers \cup {JsString(<<"2">>)} }
    \cup { JsObject(<<Prop("i", JsNumber(2)), Prop("t", JsNumber(1500))>>),
           JsObject(<<Prop("t", JsNumber(1500))>>), JsObject(<<Prop("i", JsNumber(2))>>) }
    \cup OddValues

OptionChars == { "g", "i", " ", "U+00A0", "U+00E9" }
Gimsz == { "g", "i", "m", "s", "z" }
OptionStrings ==
    SeqsUpTo(OptionChars, MaxOptLen)
    \cup { o \in [1..5 -> Gimsz] : \A a, b \in 1..5 : a # b => o[a] # o[b] }
    \cup { <<"\t", "m", " ", "x", "U+00A0", "\t">>, <<"s", "i", "s", "i">> }
RegexValues ==
    { JsObject(<<Prop("pattern", JsString(<<"^", "a", " ">>)), Prop("options", JsString(o))>>) :
        o \in OptionStrings }
    \cup { JsObject(<<Prop("pattern", p), Prop("options", o)>>) :
             p \in { JsString(<<>>), JsString(<<" ", "b", "a">>), JsNumber(1), JsUndefined },
             o \in { JsString(<<"m", "i">>), JsNumber(1), JsNull } }
    \cup { JsObject(<<Prop("options", JsString(<<"x", "i">>)), Prop("pattern", JsString(<<"a">>))>>),
           JsObject(<<Prop("pattern", JsString(<<"a">>))>>) }
    \cup OddValues

SubTypeChars == { "0", "a", "F", "g" }
SubTypeStrings ==
    SeqsUpTo(SubTypeChars, MaxSubTypeLen)
    \cup { <<"8", "0">>, <<"0", "5">>, <<"0", "4">>, <<"5">>, <<"f", "f">>, <<"0", "0", "0">> }
BinaryValues ==
    { JsObject(<<Prop("base64", JsString(<<"A", "Q", "=", "=">>)), Prop("subType", JsString(t))>>) :
        t \in SubTypeStrings }
    \cup { JsObject(<<Prop("base64", b), Prop("subType", t)>>) :
             b \in { JsString(<<>>), JsString(<<"T", "W", "F", "u">>), JsString(<<"A", "R", "=", "=">>),
                     JsString(<<"A">>), JsString(<<"!", "!", "!", "!">>), JsNumber(1) },
             t \in { JsString(<<"0", "0">>), JsString(<<"0">>), JsString(<<>>),
                     JsString(<<"0", "0", "0", "0">>), JsNumber(0), JsUndefined } }
    \cup OddValues

OidString == [i \in 1..24 |-> IF i % 2 = 0 THEN "a" ELSE "5"]
OidValues ==
    { JsString(OidString), JsString([OidString EXCEPT ![3] = "F"]), JsString(Front(OidString)),
      JsString(Front(Front(OidString))), JsString([OidString EXCEPT ![24] = "g"]),
      JsString(OidString \o <<"0", "0">>) }
    \cup OddValues

NumberValues ==
    { JsString(s) : s \in { <<"0">>, <<"-", "1">>, <<"2", "1", "4", "7", "4", "8", "3", "6", "4", "7">>,
                            <<"2", "1", "4", "7", "4", "8", "3", "6", "4", "8">>,
                            <<"-", "2", "1", "4", "7", "4", "8", "3", "6", "4", "8">>,
                            <<"-", "2", "1", "4", "7", "4", "8", "3", "6", "4", "9">>,
                            <<"9", "2", "2", "3", "3", "7", "2", "0", "3", "6", "8", "5", "4", "7", "7", "5", "8", "0", "8">>,
                            <<"1", "e", "3">> } }
    \cup SmallNumbers \cup BigNumbers \cup OddValues

\* The values a wrapper key is given.
ValuesOf(k) ==
    CASE k = "$oid" -> OidValues
      [] k = "$date" -> DateValues
      [] k = "$regularExpression" -> RegexValues
      [] k = "$timestamp" -> TimestampValues
      [] k = "$binary" -> BinaryValues
      [] k \in {"$numberDouble", "$numberInt", "$numberLong"} -> NumberValues
      [] OTHER -> OddValues

\* Keys that are no reserved wrapper key; "0" is an integer key, which
\* Reflect.ownKeys lists before every other string key.
OtherKeys == { "foo", "oid", "$OID", "$numberlong", "$", "0" }

\* A sample of well-formed and malformed payloads, given to the keys that
\* are no wrapper key and to the properties that follow the first one.
SampleValues ==
    OddValues
    \cup { JsString(OidString),
           JsObject(<<Prop("$numberLong", JsString(<<"-", "5", "0", "0">>))>>),
           JsObject(<<Prop("t", JsNumber(1500)), Prop("i", JsNumber(2))>>),
           JsObject(<<Prop("base64", JsString(<<"A", "Q", "=", "=">>)), Prop("subType", JsString(<<"0">>))>>) }

FirstProps ==
    { Prop(k, v) : k \in OtherKeys \cup ReservedKeys,
                   v \in SampleValues \ {JsUndefined, F64NaN, JsString(<<>>), JsObject(<<>>)} }
ExtraProps ==
    { Prop(k, v) : k \in {"foo", "$oid", "$date"},
                   v \in { JsString(OidString),
                           JsObject(<<Prop("$numberLong", JsString(<<"-", "5", "0", "0">>))>>) } }

\* Objects in the order of Reflect.ownKeys: distinct keys, an integer key
\* only in the first place.
WellOrdered(props) ==
    /\ \A a, b \in 1..Len(props) : a # b => props[a].key # props[b].key
    /\ \A a \in 2..Len(props) : props[a].key # JsString("0")

Inputs ==
    { JsUndefined, JsNull, JsNumber(1), JsString(<<"$", "o", "i", "d">>), JsObject(<<>>),
      JsObject(<<[key |-> JsSymbol, val |-> JsNull]>>),
      JsObject(<<[key |-> JsSymbol, val |-> JsNull], [key |-> JsSymbol, val |-> JsString(OidString)]>>) }
    \cup { JsObject(<<Prop(k, v)>>) : k \in OtherKeys, v \in SampleValues }
    \cup UNION { { JsObject(<<Prop(k, v)>>) : v \in ValuesOf(k) } : k \in ReservedKeys }
    \cup { o \in { JsObject(<<p>> \o more) :
                       p \in FirstProps, more \in SeqsUpTo(ExtraProps, MaxExtraKeys) } :
             WellOrdered(o.props) }

(***************************************************************************)
(* One call of inspect.                                                    *)
(*   target        the input value                                         *)
(*   pc            where the call stands: "inspect", "match" (the key is   *)
(*                 read), "chrono" (date is about to build the DateTime),  *)
(*                 "arm" (the routed decoder has returned), "done" (inspect*)
(*                 has returned result), "panicked" (the call aborted)     *)
(*   key, val      inspect's first key, as_string, and its value           *)
(*   ms, secs, nsecs   date's locals                                       *)
(*   ret           what the routed decoder returned                        *)
(*   result        what inspect returned                                   *)
(* A variable not yet assigned holds None.                                 *)
(***************************************************************************)
VARIABLES target, pc, key, val, ms, secs, nsecs, ret, result

vars == <<target, pc, key, val, ms, secs, nsecs, ret, result>>

Init ==
    /\ target \in Inputs
    /\ pc = "inspect"
    /\ key = None /\ val = None
    /\ ms = None /\ secs = None /\ nsecs = None
    /\ ret = None /\ result = None

Return(r) ==
    /\ result' = r
    /\ pc' = "done"

\* inspect, to the match: the own keys, the first key and its value.
Inspect ==
    /\ pc = "inspect"
    /\ LET keys == Reflect_own_keys(target)
       IN IF IsErr(keys)
          THEN Return(Result_Err(<<keys.err>>)) /\ UNCHANGED <<key, val>>
          ELSE IF first_key(keys.val) = None
          THEN Return(Result_Ok(None)) /\ UNCHANGED <<key, val>>
          ELSE LET k == first_key(keys.val).val
                   v == Reflect_get(target, k)
               IN IF IsErr(v)
                  THEN Return(Result_Err(<<v.err>>)) /\ UNCHANGED <<key, val>>
                  ELSE IF as_string(k) = None
                  THEN Return(Result_Err(<<"failed to extract object key">>))
                       /\ UNCHANGED <<key, val>>
                  ELSE /\ key' = as_string(k)
                       /\ val' = v.val
                       /\ pc' = "match"
                       /\ UNCHANGED result
    /\ UNCHANGED <<target, ms, secs, nsecs, ret>>

\* An arm that calls a decoder.
Arm(k, r) ==
    /\ pc = "match"
    /\ key = Some(k)
    /\ ret' = r
    /\ pc' = "arm"
    /\ UNCHANGED <<target, key, val, ms, secs, nsecs, result>>

ArmOid == Arm("$oid", oid(val))
ArmNumberDouble == Arm("$numberDouble", numberDouble(val))
ArmNumberInt == Arm("$numberInt", numberInt(val))
ArmNumberLong == Arm("$numberLong", numberLong(val))
ArmRegularExpression == Arm("$regularExpression", regex(val))
ArmTimestamp == Arm("$timestamp", timestamp(val))
ArmBinary == Arm("$binary", binary(val))

\* The arm "$date", to date's call of chrono.
ArmDate ==
    /\ pc = "match"
    /\ key = Some("$date")
    /\ LET m == date_ms(val)
       IN IF IsErr(m)
          THEN /\ ret' = m
               /\ pc' = "arm"
               /\ UNCHANGED <<ms, secs, nsecs>>
          ELSE /\ ms' = m.val
               /\ secs' = date_secs(m.val)
               /\ nsecs' = date_nsecs(m.val)
               /\ pc' = "chrono"
               /\ UNCHANGED ret
    /\ UNCHANGED <<target, key, val, result>>

\* chrono::Utc.timestamp(secs, nsecs), and date's return.
DateBuild ==
    /\ pc = "chrono"
    /\ LET date == Utc_timestamp_opt(secs, nsecs)
       IN IF date = None
          THEN pc' = "panicked" /\ UNCHANGED ret
          ELSE ret' = Result_Ok(date.val) /\ pc' = "arm"
    /\ UNCHANGED <<target, key, val, ms, secs, nsecs, result>>

\* The arms that call nothing.
ArmMinKey ==
    /\ pc = "match"
    /\ key = Some("$minKey")
    /\ Return(Result_Ok(Some(Bson_MinKey)))
    /\ UNCHANGED <<target, key, val, ms, secs, nsecs, ret>>

ArmMaxKey ==
    /\ pc = "match"
    /\ key = Some("$maxKey")
    /\ Return(Result_Ok(Some(Bson_MaxKey)))
    /\ UNCHANGED <<target, key, val, ms, secs, nsecs, ret>>

ArmOther ==
    /\ pc = "match"
    /\ key.val \notin ReservedKeys
    /\ Return(other_key(key.val))
    /\ UNCHANGED <<target, key, val, ms, secs, nsecs, ret>>

\* The decoder has returned: inspect returns its value or its failure.
Propagate ==
    /\ pc = "arm"
    /\ Return(propagate(ret))
    /\ UNCHANGED <<target, key, val, ms, secs, nsecs, ret>>

Next ==
    \/ Inspect
    \/ ArmOid
    \/ ArmDate
    \/ DateBuild
    \/ ArmNumberDouble
    \/ ArmNumberInt
    \/ ArmNumberLong
    \/ ArmMinKey
    \/ ArmMaxKey
    \/ ArmRegularExpression
    \/ ArmTimestamp
    \/ ArmBinary
    \/ ArmOther
    \/ Propagate

Spec == Init /\ [][Next]_vars

(***************************************************************************)
(* The claims.                                                             *)
(***************************************************************************)
Panic == [tag |-> "Panic"]
\* How the call ended.
Outcome == IF pc = "panicked" THEN Panic ELSE result
Finished == pc \in {"done", "panicked"}
\* The routed decoder has returned (ret is set).
Returned(k) == pc \in {"arm", "done"} /\ key = Some(k)

\* The property `name` of a value, undefined when there is none.
Member(v, name) ==
    IF v.kind = "object" /\ \E i \in 1..Len(v.props) : v.props[i].key = JsString(name)
    THEN v.props[CHOOSE i \in 1..Len(v.props) : v.props[i].key = JsString(name)].val
    ELSE JsUndefined

\* C1: for an input object with no own key, or whose first own key is a
\* string other than the ten reserved wrapper keys, inspect returns
\* Ok(None) whatever the value under that key: the call never aborts, never
\* stops before it returns, and returns neither a failure nor a BSON value.
C1_NoMatchCase ==
    /\ target.kind = "object"
    /\ \/ target.props = <<>>
       \/ /\ target.props[1].key.kind = "string"
          /\ target.props[1].key.str \notin ReservedKeys
C1_NoMatch ==
    C1_NoMatchCase =>
        /\ pc \in {"inspect", "match", "done"}
        /\ pc # "done" => ENABLED Next
        /\ pc = "done" => result = Result_Ok(None)
C1_Witness ==
    /\ pc = "done"
    /\ target.kind = "object" /\ Len(target.props) = 1
    /\ target.props[1] = Prop("foo", JsObject(<<Prop("$oid", JsNumber(1))>>))
    /\ result = Result_Ok(None)

\* C2: every call of inspect ends in a decoded value, "no match" or a
\* returned failure and never aborts; in particular {"$date": {"$numberLong":
\* ms}} gives a DateTime or a failure for every i64 ms.
C2_NeverAborts ==
    /\ pc # "panicked"
    /\ pc = "done" => result.tag \in {"Ok", "Err"}

\* The sign and size of an f64.
F64Negative(x) == x.cls # "nan" /\ x.neg /\ (x.cls = "inf" \/ x.int # <<>> \/ x.frac)
F64Above(x, limit) ==
    \/ x.cls = "inf" /\ ~x.neg
    \/ /\ x.cls = "finite" /\ ~x.neg
       /\ \/ CmpMag(x.int, limit) > 0
          \/ CmpMag(x.int, limit) = 0 /\ x.frac
F64Within(x, limit) == x.cls = "finite" /\ ~F64Negative(x) /\ ~F64Above(x, limit)

TimestampCase ==
    /\ Returned("$timestamp")
    /\ Member(val, "t").kind = "number"
    /\ Member(val, "i").kind = "number"

\* C3: the timestamp decoder fails when t or i is negative, or t / 1000 or i
\* exceeds 4294967295; it returns no Timestamp with a clamped or wrapped
\* field.
C3_OutOfRangeFails ==
    ( /\ TimestampCase
      /\ \/ F64Negative(Member(val, "t"))
         \/ F64Negative(Member(val, "i"))
         \/ F64Above(Member(val, "t"), Mul(U32Max, 1000).mag)
         \/ F64Above(Member(val, "i"), U32Max.mag) )
    => IsErr(ret)

\* C4: for every non-negative ms the date decoder computes secs = ms / 1000
\* and nsecs = (ms % 1000) * 1_000_000 with 0 <= nsecs < 1_000_000_000 and
\* secs * 1000 + nsecs / 1_000_000 = ms, and the DateTime it builds
\* recombines to ms.
C4_DateRecombines ==
    (ms # None /\ ~ms.neg) =>
        /\ secs = Div(ms, 1000)
        /\ nsecs = Mul(BigOf(Rem(ms, 1000)), 1000000)
        /\ Leq(BigOf(0), nsecs) /\ Less(nsecs, MkBig(FALSE, <<1, 0, 0, 0>>))
        /\ Add(Mul(secs, 1000), Div(nsecs, 1000000)) = ms
        /\ IsOk(ret) =>
              /\ ret.val.bson = "DateTime"
              /\ Add(Mul(ret.val.secs, 1000), Div(ret.val.nsecs, 1000000)) = ms
C4_Witness ==
    /\ pc = "done"
    /\ ms = BigOf(999)
    /\ result = Result_Ok(Some(Bson_DateTime(BigOf(0), MkBig(FALSE, <<999, 0, 0>>))))

\* C5: the binary decoder returns a Binary only when subType hex-decodes to
\* exactly one byte, and then with that byte as the subtype; for a subType of
\* no character, or of four or more, it fails.
C5_SubtypeOneByte ==
    Returned("$binary") =>
        LET st == Member(val, "subType")
        IN /\ IsOk(ret) =>
                /\ st.kind = "string" /\ Len(st.str) = 2
                /\ IsHexDigit(st.str[1]) /\ IsHexDigit(st.str[2])
                /\ ret.val.bson = "Binary"
                /\ BinarySubtype_byte(ret.val.subtype) = HexVal(st.str[1]) * 16 + HexVal(st.str[2])
           /\ (st.kind = "string" /\ (Len(st.str) = 0 \/ Len(st.str) >= 4)) => IsErr(ret)
C5_Witness ==
    /\ pc = "done"
    /\ key = Some("$binary")
    /\ Member(val, "base64") = JsString(<<"A", "Q", "=", "=">>)
    /\ Member(val, "subType") = JsString(<<"0", "0", "a", "F">>)
    /\ result = Result_Err(<<"invalid subType in $binary">>)

\* C6: with a valid base64 payload, every subType of one hex digit and every
\* subType of two hex digits, in either letter case, decodes to a Binary
\* whose subtype is the byte the hex string denotes.
C6_OneOrTwoHexDigits ==
    Returned("$binary") =>
        LET st == Member(val, "subType")
            payload == Member(val, "base64")
        IN ( /\ payload.kind = "string" /\ IsOk(base64_decode(payload.str))
             /\ st.kind = "string" /\ Len(st.str) \in {1, 2}
             /\ \A j \in 1..Len(st.str) : IsHexDigit(st.str[j]) )
           => /\ IsOk(ret)
              /\ BinarySubtype_byte(ret.val.subtype) =
                    IF Len(st.str) = 1 THEN HexVal(st.str[1])
                    ELSE HexVal(st.str[1]) * 16 + HexVal(st.str[2])

Sorted(s) == \A j \in 1..(Len(s) - 1) : CodePoint(s[j]) <= CodePoint(s[j + 1])
Count(s, c) == Cardinality({ j \in 1..Len(s) : s[j] = c })
IsPermutation(a, b) ==
    /\ Len(a) = Len(b)
    /\ \A j \in 1..Len(a) : Count(a, a[j]) = Count(b, a[j])
WithOptions(o) ==
    JsObject(<<Prop("pattern", JsString(<<>>)), Prop("options", JsString(o))>>)

\* C7: the options the regex decoder returns are in ascending code-point
\* order with no leading or trailing whitespace; every permutation of the
\* input options decodes to the same options; decoding the decoded options
\* returns them unchanged; the pattern is the input's pattern.
C7_OptionsNormalized ==
    (Returned("$regularExpression") /\ IsOk(ret)) =>
        LET out == ret.val.options
            inp == Member(val, "options").str
        IN /\ Sorted(out)
           /\ out # <<>> => ~IsWhitespace(Head(out)) /\ ~IsWhitespace(Last(out))
           /\ \A o \in OptionStrings :
                 IsPermutation(o, inp) => regex(WithOptions(o)) .val.options = out
           /\ regex(WithOptions(out)).val.options = out
           /\ ret.val.pattern = Member(val, "pattern").str
C7_Witness ==
    /\ pc = "done"
    /\ key = Some("$regularExpression")
    /\ Member(val, "options") = JsString(<<"z", "s", "m", "i", "g">>)
    /\ result = Result_Ok(Some(Bson_RegularExpression(<<"^", "a", " ">>,
                                                         <<"g", "i", "m", "s", "z">>)))

FirstOnly(k, v) ==
    IF k.kind # "string" THEN Result_Err(<<"failed to extract object key">>)
    ELSE CASE k.str = "$oid" -> propagate(oid(v))
           [] k.str = "$date" ->
                LET m == date_ms(v)
                IN IF IsErr(m) THEN propagate(m)
                   ELSE LET d == Utc_timestamp_opt(date_secs(m.val), date_nsecs(m.val))
                        IN IF d = None THEN Panic ELSE Result_Ok(d)
           [] k.str = "$numberDouble" -> propagate(numberDouble(v))
           [] k.str = "$numberInt" -> propagate(numberInt(v))
           [] k.str = "$numberLong" -> propagate(numberLong(v))
           [] k.str = "$minKey" -> Result_Ok(Some(Bson_MinKey))
           [] k.str = "$maxKey" -> Result_Ok(Some(Bson_MaxKey))
           [] k.str = "$regularExpression" -> propagate(regex(v))
           [] k.str = "$timestamp" -> propagate(timestamp(v))
           [] k.str = "$binary" -> propagate(binary(v))
           [] OTHER -> Result_Ok(None)

\* C9: how inspect ends depends only on the first own key of the input and
\* the value under it, whatever further keys and values the object has.
C9_FirstKeyOnly ==
    (Finished /\ target.kind = "object" /\ target.props # <<>>) =>
        Outcome = FirstOnly(target.props[1].key, target.props[1].val)
C9_Witness ==
    /\ pc = "done"
    /\ target.kind = "object" /\ Len(target.props) = 3
    /\ target.props[1] = Prop("$oid", JsString(OidString))
    /\ target.props[2].key = JsString("$date")
    /\ target.props[3].key = JsString("foo")
    /\ result = Result_Ok(Some(Bson_ObjectId([j \in 1..12 |-> 90])))

\* C10: when the first key is a reserved wrapper key inspect never returns
\* "no match": it returns the routed decoder's value when that succeeds and
\* the decoder's failure, unchanged, when it fails; for $minKey and $maxKey
\* it returns the constant whatever the value.
C10_ReservedNeverNoMatch ==
    (pc = "done" /\ key # None /\ key.val \in ReservedKeys) =>
        /\ result # Result_Ok(None)
        /\ key.val = "$minKey" => result = Result_Ok(Some(Bson_MinKey))
        /\ key.val = "$maxKey" => result = Result_Ok(Some(Bson_MaxKey))
        /\ key.val \notin {"$minKey", "$maxKey"} =>
              /\ ret.tag \in {"Ok", "Err"}
              /\ IsOk(ret) => result = Result_Ok(Some(ret.val))
              /\ IsErr(ret) => result = ret
C10_Witness ==
    /\ pc = "done"
    /\ key = Some("$oid")
    /\ val = JsString(Front(OidString))
    /\ ret = Result_Err(<<"error in ObjectID value: ", "Odd number of digits">>)
    /\ result = ret

====
